---- MODULE Spec2Model ----
(***************************************************************************)
(* Model of the transcript combiner (the VTT script, src/unnamed/part_000):*)
(* argument validation, parseVTT (normalisation, skip filters, dedupe),    *)
(* combineTranscripts (read, parse, sort by timestamp string, one write).  *)
(*                                                                         *)
(* A JavaScript string is a sequence of one-character strings, so that     *)
(* trim, the whitespace collapse, includes, the regular-expression test    *)
(* and localeCompare are computed character by character.                  *)
(***************************************************************************)
EXTENDS Integers, Sequences, FiniteSets, TLC

----------------------------------------------------------------------------
(* Bounds of the model. *)

\* most caption entries in the one file that SpecParse walks
MaxEntries == 4
\* most speakers (values of each per-speaker option)
MaxSpeakers == 2
\* most caption entries over all the files of one SpecMerge run
MaxLines == 3
\* largest value of --chunks that is tried
MaxChunks == 2

----------------------------------------------------------------------------
(* Strings. *)

Range(f) == {f[k] : k \in DOMAIN f}

\* the characters JavaScript's \s and trim() treat as white space (those used)
IsSpace(c) == c \in {" ", "\n", "\t"}

RECURSIVE TrimStart(_)
TrimStart(s) ==
  IF s # <<>> /\ IsSpace(Head(s)) THEN TrimStart(Tail(s)) ELSE s

RECURSIVE TrimEnd(_)
TrimEnd(s) ==
  IF s # <<>> /\ IsSpace(s[Len(s)]) THEN TrimEnd(SubSeq(s, 1, Len(s) - 1)) ELSE s

\* String.prototype.trim
Trim(s) == TrimEnd(TrimStart(s))

\* replace(/\s+/g, ' '): every maximal run of white space becomes one space
RECURSIVE CollapseSpaces(_)
CollapseSpaces(s) ==
  IF s = <<>> THEN <<>>
  ELSE IF IsSpace(Head(s))
       THEN <<" ">> \o CollapseSpaces(TrimStart(s))
       ELSE <<Head(s)>> \o CollapseSpaces(Tail(s))

normalizeContent(text) == CollapseSpaces(Trim(text))

\* String.prototype.includes: needle occurs in content as a substring
Includes(content, needle) ==
  \E k \in 0 .. (Len(content) - Len(needle)) :
     SubSeq(content, k + 1, k + Len(needle)) = needle

\* the alternatives of a pattern a|b|c (the patterns modelled are alternations
\* of literal texts, the shape the README shows)
RECURSIVE Alternatives(_)
Alternatives(src) ==
  IF \E k \in 1 .. Len(src) : src[k] = "|"
  THEN LET k == CHOOSE j \in 1 .. Len(src) :
                  src[j] = "|" /\ \A m \in 1 .. (j - 1) : src[m] # "|"
       IN  <<SubSeq(src, 1, k - 1)>> \o Alternatives(SubSeq(src, k + 1, Len(src)))
  ELSE <<src>>

\* RegExp.prototype.test of a flagless pattern: some alternative occurs
RegExpTest(src, content) ==
  \E a \in Range(Alternatives(src)) : Includes(content, a)

\* the coerce of --skip-filter: /.../ becomes a RegExp, anything else stays
CoerceFilter(arg) ==
  IF arg # <<>> /\ Head(arg) = "/" /\ arg[Len(arg)] = "/"
  THEN [type |-> "RegExp", text |-> SubSeq(arg, 2, Len(arg) - 1)]
  ELSE [type |-> "string", text |-> arg]

\* the callback of filters.some
FilterMatches(filter, content) ==
  IF filter.type = "string" THEN Includes(content, filter.text)
  ELSE IF filter.type = "RegExp" THEN RegExpTest(filter.text, content)
  ELSE FALSE

shouldSkipFirstOnly(content, filters) ==
  filters # <<>> /\ FilterMatches(Head(filters), content)

\* filters.some(...): left to right, stopping at the first match
RECURSIVE shouldSkipContent(_, _)
shouldSkipContent(content, filters) ==
  IF filters = <<>> THEN FALSE
  ELSE IF FilterMatches(Head(filters), content) THEN TRUE
  ELSE shouldSkipContent(content, Tail(filters))

----------------------------------------------------------------------------
(* parseVTT. *)

Null == <<>>
\* a value that is null or one string: <<>> or <<s>>
Some(s) == <<s>>

DedupeChoices == {"false", "consecutive", "unique"}

\* the locals of parseVTT; entries is the flat array split() returns after
\* slice(1): start, end, body, start, end, body, ...  i is the loop index;
\* log is a history of the branch each iteration took (the code only counts)
VttStart(entries) ==
  [entries |-> entries, i |-> 0, result |-> <<>>, lastContent |-> Null,
   uniqueContents |-> {}, skippedCount |-> 0, duplicateCount |-> 0,
   initialEntries |-> 0, log |-> <<>>]

\* fileContent.split(timeRegex).slice(1), for a file given as its caption
\* blocks: every marker contributes its two captures and the text up to the
\* next marker (the empty string when nothing follows)
RECURSIVE Split(_)
Split(blocks) ==
  IF blocks = <<>> THEN <<>>
  ELSE <<Head(blocks).startTime, Head(blocks).endTime, Head(blocks).body>>
       \o Split(Tail(blocks))

\* `${startTime} --> ${endTime}`
Arrow == <<" ", "-", "-", ">", " ">>
TimestampOf(startTime, endTime) == startTime \o Arrow \o endTime

IsDuplicateLastOnly(dedupe, content, lastContent, uniqueContents) ==
  dedupe # "false" /\ lastContent # Null /\ content = lastContent[1]

IsDuplicateSeenOnly(dedupe, content, lastContent, uniqueContents) ==
  dedupe # "false" /\ content \in uniqueContents

\* the condition of the two dedupe branches
IsDuplicate(dedupe, content, lastContent, uniqueContents) ==
  \/ dedupe = "consecutive" /\ lastContent # Null /\ content = lastContent[1]
  \/ dedupe = "unique" /\ content \in uniqueContents

SkipForgetsLast(st) ==
  [st EXCEPT !.skippedCount = @ + 1, !.lastContent = Null,
             !.log = Append(@, "skipped")]

\* the skip-filter branch: count and continue
Skip(st) ==
  [st EXCEPT !.skippedCount = @ + 1, !.log = Append(@, "skipped")]

\* a dedupe branch: count and continue
Duplicate(st) ==
  [st EXCEPT !.duplicateCount = @ + 1, !.log = Append(@, "duplicate")]

RetainAlways(st, startTime, endTime, content) ==
  [st EXCEPT !.result = Append(@, <<TimestampOf(startTime, endTime), content>>),
             !.lastContent = Some(content),
             !.uniqueContents = @ \cup {content},
             !.log = Append(@, "retained")]

\* if (content) { push; lastContent = content; uniqueContents.add(content) }
Retain(st, startTime, endTime, content) ==
  IF content # <<>>
  THEN [st EXCEPT !.result = Append(@, <<TimestampOf(startTime, endTime), content>>),
                  !.lastContent = Some(content),
                  !.uniqueContents = @ \cup {content},
                  !.log = Append(@, "retained")]
  ELSE [st EXCEPT !.log = Append(@, "empty")]

\* one iteration of the for loop (i += 3 included)
LoopBody(st, dedupe, skipFilters) ==
  LET startTime == st.entries[st.i + 1]
      endTime   == st.entries[st.i + 2]
      content   == normalizeContent(st.entries[st.i + 3])
      counted   == [st EXCEPT !.initialEntries = @ + 1, !.i = @ + 3]
  IN  IF shouldSkipContent(content, skipFilters) THEN Skip(counted)
      ELSE IF IsDuplicate(dedupe, content, st.lastContent, st.uniqueContents)
           THEN Duplicate(counted)
      ELSE Retain(counted, startTime, endTime, content)

LoopGuard(st) == st.i < Len(st.entries)

\* the whole of parseVTT: the loop run to its end
RECURSIVE RunLoop(_, _, _)
RunLoop(st, dedupe, skipFilters) ==
  IF LoopGuard(st) THEN RunLoop(LoopBody(st, dedupe, skipFilters), dedupe, skipFilters)
  ELSE st

parseVTT(fileEntries, dedupe, skipFilters) ==
  RunLoop(VttStart(fileEntries), dedupe, skipFilters).result

----------------------------------------------------------------------------
(* The sort of combineTranscripts. *)

\* the order the default collation gives the characters of a timestamp
\* string: white space, then punctuation, then symbols, then the digits
CollationOrder ==
  <<" ", "-", ":", ".", ">", "0", "1", "2", "3", "4", "5", "6", "7", "8", "9">>

CollationRank(c) == CHOOSE k \in 1 .. Len(CollationOrder) : CollationOrder[k] = c

\* a.localeCompare(b) on such strings: -1, 0 or 1 by the first differing
\* character, a proper prefix first
RECURSIVE localeCompare(_, _)
localeCompare(a, b) ==
  IF a = <<>> /\ b = <<>> THEN 0
  ELSE IF a = <<>> THEN -1
  ELSE IF b = <<>> THEN 1
  ELSE IF CollationRank(Head(a)) < CollationRank(Head(b)) THEN -1
  ELSE IF CollationRank(Head(a)) > CollationRank(Head(b)) THEN 1
  ELSE localeCompare(Tail(a), Tail(b))

CompareStartOnly(a, b) ==
  localeCompare(SubSeq(a.timestamp, 1, 12), SubSeq(b.timestamp, 1, 12))

\* the comparator handed to sort
Compare(a, b) == localeCompare(a.timestamp, b.timestamp)

\* x placed after every element that does not compare greater than it
Insert(sorted, x) ==
  LET after == {k \in 1 .. Len(sorted) : Compare(sorted[k], x) <= 0}
      at    == IF after = {} THEN 0
               ELSE CHOOSE k \in after : \A m \in after : m <= k
  IN  SubSeq(sorted, 1, at) \o <<x>> \o SubSeq(sorted, at + 1, Len(sorted))

\* Array.prototype.sort with that comparator: a stable sort
RECURSIVE SortLines(_)
SortLines(lines) ==
  IF lines = <<>> THEN <<>>
  ELSE Insert(SortLines(SubSeq(lines, 1, Len(lines) - 1)), lines[Len(lines)])

\* one line of the output text, with or without its timestamp
RenderLine(line, timestamped) ==
  [timestamp |-> IF timestamped THEN Some(line.timestamp) ELSE Null,
   character |-> line.character, content |-> line.content]

\* the reduce that builds combinedText, as the list of its lines
RenderLines(lines, timestamped) ==
  [k \in 1 .. Len(lines) |-> RenderLine(lines[k], timestamped)]

----------------------------------------------------------------------------
(* The state of one run. *)

VARIABLES
  argv,           \* the parsed command line: the lengths of the five
                  \* per-speaker arrays (value k of an array is k), dedupe,
                  \* skipFilter, timestamped, and chunks (passed, never read)
  disk,           \* disk[k]: the file transcript[k] names: readable?, blocks
  pc,             \* where the script is
  idx,            \* how many transcripts forEach has been through
  summary,        \* the speakers the summary lists so far
  combinedLines,  \* the lines pushed (seq: the order of the pushes, a history)
  written,        \* the artifacts writeFileSync has written
  readLog,        \* the files readFileSync was called on
  exitCode,       \* the process's exit code once it has ended, else -1
  vtt             \* the locals of the running (or last) parseVTT

vars == <<argv, disk, pc, idx, summary, combinedLines, written, readLog,
          exitCode, vtt>>

PerSpeaker ==
  {"playerName", "role", "characterName", "characterDescription", "transcript"}

AllSameLengthButTranscript(a) ==
  \A k \in PerSpeaker \ {"transcript"} : a[k] = a.playerName

\* [..].every(arr => arr.length === playerNames.length)
AllSameLength(a) == \A k \in PerSpeaker : a[k] = a.playerName

\* the validation at the top level: exit(1), or go on to combineTranscripts
\* with transcripts = playerNames.map(...)
Validate ==
  /\ pc = "validate"
  /\ IF ~AllSameLength(argv)
     THEN /\ pc' = "exited"
          /\ exitCode' = 1
     ELSE /\ pc' = "combine"
          /\ UNCHANGED exitCode
  /\ UNCHANGED <<argv, disk, idx, summary, combinedLines, written, readLog, vtt>>

\* the lines one parsed file adds to combinedLines
Pushed(parsed, character, from) ==
  [k \in 1 .. Len(parsed) |->
     [timestamp |-> parsed[k][1], character |-> character,
      content |-> parsed[k][2], seq |-> from + k]]

ReadThrowsNever(k) == FALSE

\* readFileSync throws on a missing or unreadable file
ReadThrows(k) == ~disk[k].readable

\* one pass of transcripts.forEach: summary, read, parse, push
ForEachTranscript ==
  /\ pc = "combine"
  /\ idx < argv.playerName
  /\ ~ReadThrows(idx + 1)
  /\ LET done == RunLoop(VttStart(Split(disk[idx + 1].blocks)),
                         argv.dedupe, argv.skipFilter)
     IN  /\ vtt' = done
         /\ combinedLines' =
              combinedLines \o Pushed(done.result, idx + 1, Len(combinedLines))
  /\ summary' = Append(summary, idx + 1)
  /\ readLog' = Append(readLog, idx + 1)
  /\ idx' = idx + 1
  /\ UNCHANGED <<argv, disk, pc, written, exitCode>>

\* the pass in which readFileSync throws: control leaves combineTranscripts
ForEachThrows ==
  /\ pc = "combine"
  /\ idx < argv.playerName
  /\ ReadThrows(idx + 1)
  /\ summary' = Append(summary, idx + 1)
  /\ readLog' = Append(readLog, idx + 1)
  /\ pc' = "catch"
  /\ UNCHANGED <<argv, disk, idx, combinedLines, written, exitCode, vtt>>

\* after the forEach: sort, build the text, write it once, and end
SortAndWrite ==
  /\ pc = "combine"
  /\ idx = argv.playerName
  /\ combinedLines' = SortLines(combinedLines)
  /\ written' = Append(written,
                       [summary |-> summary,
                        lines |-> RenderLines(combinedLines', argv.timestamped)])
  /\ pc' = "done"
  /\ exitCode' = 0
  /\ UNCHANGED <<argv, disk, idx, summary, readLog, vtt>>

\* the catch block: report the error; the script then ends normally
CatchError ==
  /\ pc = "catch"
  /\ pc' = "done"
  /\ exitCode' = 0
  /\ UNCHANGED <<argv, disk, idx, summary, combinedLines, written, readLog, vtt>>

\* one iteration of parseVTT's loop, for the specification that walks one file
LoopIteration ==
  /\ pc = "parseVTT"
  /\ LoopGuard(vtt)
  /\ vtt' = LoopBody(vtt, argv.dedupe, argv.skipFilter)
  /\ UNCHANGED <<argv, disk, pc, idx, summary, combinedLines, written, readLog,
                 exitCode>>

----------------------------------------------------------------------------
(* The inputs that are tried. *)

Digits == <<"0", "1", "2", "3", "4", "5", "6", "7", "8", "9">>

\* the text HH:MM:SS.mmm of four field values (each field may hold any digits)
Clock(hh, mm, ss, mmm) ==
  <<Digits[(hh \div 10) + 1], Digits[(hh % 10) + 1], ":",
    Digits[(mm \div 10) + 1], Digits[(mm % 10) + 1], ":",
    Digits[(ss \div 10) + 1], Digits[(ss % 10) + 1], ".",
    Digits[(mmm \div 100) + 1], Digits[((mmm \div 10) % 10) + 1],
    Digits[(mmm % 10) + 1]>>

\* caption bodies: two spellings of "a b", "[B]", white space only, none
Bodies ==
  { <<"\n", "a", " ", " ", "b", "\n">>, <<"a", " ", "b">>,
    <<"[", "B", "]">>, <<" ", "\n">>, <<>> }

\* --skip-filter values: the literal [B] and the pattern /yo|a b/
FilterArgs ==
  { <<"[", "B", "]">>, <<"/", "y", "o", "|", "a", " ", "b", "/">> }

\* every list of distinct --skip-filter values, coerced
FilterConfigs ==
  LET lists == UNION {[1 .. n -> FilterArgs] : n \in 0 .. Cardinality(FilterArgs)}
  IN  { [k \in DOMAIN l |-> CoerceFilter(l[k])] :
          l \in {m \in lists : \A p, q \in DOMAIN m : p # q => m[p] # m[q]} }

\* a file of the given bodies, block k running from second k to second k + 1
FileOfBodies(bodies) ==
  [k \in 1 .. Len(bodies) |->
     [startTime |-> Clock(0, 0, k, 0), endTime |-> Clock(0, 0, k + 1, 0),
      body |-> bodies[k]]]

SeqsUpTo(S, n) == UNION {[1 .. k -> S] : k \in 0 .. n}

ReadableFile(blocks) == [readable |-> TRUE, blocks |-> blocks]
MissingFile == [readable |-> FALSE, blocks |-> <<>>]

Lengths(n) == [k \in PerSpeaker |-> n]

Options(lengths, dedupe, skipFilter, timestamped, chunks) ==
  [playerName |-> lengths.playerName, role |-> lengths.role,
   characterName |-> lengths.characterName,
   characterDescription |-> lengths.characterDescription,
   transcript |-> lengths.transcript, dedupe |-> dedupe,
   skipFilter |-> skipFilter, timestamped |-> timestamped, chunks |-> chunks]

\* the files of the whole-run specification: missing, one caption, two
\* captions of the same text
RunFiles ==
  { MissingFile,
    ReadableFile(FileOfBodies(<< <<"y", "o">> >>)),
    ReadableFile(FileOfBodies(<< <<"a", " ", "b">>, <<"a", " ", "b">> >>)) }

\* the spans of the merge specification: two that share a start, and two
\* whose order as text and as milliseconds differ (99 minutes, then 1 hour)
MergeSpans ==
  { <<Clock(0, 0, 1, 0), Clock(0, 0, 2, 0)>>,
    <<Clock(0, 0, 1, 0), Clock(0, 0, 10, 0)>>,
    <<Clock(0, 99, 0, 0), Clock(1, 0, 0, 0)>>,
    <<Clock(1, 0, 0, 0), Clock(1, 0, 1, 0)>> }

MergeBlocks ==
  { [startTime |-> sp[1], endTime |-> sp[2], body |-> <<"h", "i">>] :
      sp \in MergeSpans }

\* the ways to cut a list of len blocks into n files: n - 1 cut points
Cuts(len, n) ==
  { c \in [1 .. (n - 1) -> 0 .. len] :
      \A p, q \in 1 .. (n - 1) : p < q => c[p] <= c[q] }

CutFiles(flat, n, c) ==
  [k \in 1 .. n |->
     ReadableFile(SubSeq(flat,
                         (IF k = 1 THEN 0 ELSE c[k - 1]) + 1,
                         IF k = n THEN Len(flat) ELSE c[k]))]

----------------------------------------------------------------------------
(* The specifications. *)

Quiet ==
  /\ idx = 0
  /\ summary = <<>>
  /\ combinedLines = <<>>
  /\ written = <<>>
  /\ readLog = <<>>
  /\ exitCode = -1

\* a whole run, from the parsed command line on
Init ==
  /\ \E lengths \in [PerSpeaker -> 1 .. MaxSpeakers], dedupe \in DedupeChoices,
        timestamped \in BOOLEAN, chunks \in 1 .. MaxChunks :
       argv = Options(lengths, dedupe, <<>>, timestamped, chunks)
  /\ disk \in [1 .. argv.transcript -> RunFiles]
  /\ pc = "validate"
  /\ Quiet
  /\ vtt = VttStart(<<>>)

Next == Validate \/ ForEachTranscript \/ ForEachThrows \/ SortAndWrite \/ CatchError

Spec == Init /\ [][Next]_vars

\* parseVTT on one file, one loop iteration at a time
InitParse ==
  /\ \E dedupe \in DedupeChoices, skipFilter \in FilterConfigs :
       argv = Options(Lengths(1), dedupe, skipFilter, TRUE, 1)
  /\ \E bodies \in SeqsUpTo(Bodies, MaxEntries) :
       disk = <<ReadableFile(FileOfBodies(bodies))>>
  /\ pc = "parseVTT"
  /\ Quiet
  /\ vtt = VttStart(Split(disk[1].blocks))

NextParse == LoopIteration

SpecParse == InitParse /\ [][NextParse]_vars

\* combineTranscripts on readable files whose captions are all retained
InitMerge ==
  /\ \E n \in 1 .. MaxSpeakers :
       /\ argv = Options(Lengths(n), "false", <<>>, TRUE, 1)
       /\ \E flat \in SeqsUpTo(MergeBlocks, MaxLines) :
            \E c \in Cuts(Len(flat), n) : disk = CutFiles(flat, n, c)
  /\ pc = "combine"
  /\ Quiet
  /\ vtt = VttStart(<<>>)

NextMerge == ForEachTranscript \/ SortAndWrite

SpecMerge == InitMerge /\ [][NextMerge]_vars

----------------------------------------------------------------------------
(* Claims about parseVTT, under SpecParse. *)

\* how many entries the loop has been through
Processed == Len(vtt.log)

Finished == pc = "parseVTT" /\ ~LoopGuard(vtt)

\* the normalized text of the k-th caption entry of the file
TextOf(k) == normalizeContent(disk[1].blocks[k].body)

\* the entries before k that were retained, and the last of them
RetainedBefore(k) == {j \in 1 .. (k - 1) : vtt.log[j] = "retained"}
LastRetainedBefore(k) ==
  CHOOSE j \in RetainedBefore(k) : \A m \in RetainedBefore(k) : m <= j

\* the texts of the first k entries, and of the retained ones among them
RECURSIVE RetainedTexts(_)
RetainedTexts(k) ==
  IF k = 0 THEN <<>>
  ELSE IF vtt.log[k] = "retained" THEN Append(RetainedTexts(k - 1), TextOf(k))
  ELSE RetainedTexts(k - 1)

ResultTexts == [k \in 1 .. Len(vtt.result) |-> vtt.result[k][2]]

\* what the claims mean by a filter matching a text
Matches(filter, text) ==
  \/ filter.type = "string" /\ Includes(text, filter.text)
  \/ filter.type = "RegExp" /\ RegExpTest(filter.text, text)

Filtered(text) == \E f \in Range(argv.skipFilter) : Matches(f, text)

\* the file reads x, x, y, x for two distinct texts that pass every filter
IsHelloHelloWorldHello ==
  /\ Len(disk[1].blocks) = 4
  /\ TextOf(1) = TextOf(2) /\ TextOf(1) = TextOf(4) /\ TextOf(3) # TextOf(1)
  /\ \A k \in 1 .. 4 : TextOf(k) # <<>> /\ ~Filtered(TextOf(k))

\* C2: in mode consecutive an entry is dropped as a duplicate exactly when its
\* normalized text equals that of the last entry retained before it in the
\* file; the result is the retained entries, no two adjacent ones of equal
\* text; and x, x, y, x is retained as x, y, x.
C2_ConsecutiveDedupe ==
  (pc = "parseVTT" /\ argv.dedupe = "consecutive") =>
    /\ \A k \in 1 .. Processed :
         (vtt.log[k] = "duplicate") <=>
           /\ RetainedBefore(k) # {}
           /\ TextOf(k) = TextOf(LastRetainedBefore(k))
    /\ ResultTexts = RetainedTexts(Processed)
    /\ \A k \in 1 .. (Len(vtt.result) - 1) : ResultTexts[k] # ResultTexts[k + 1]
    /\ (Finished /\ IsHelloHelloWorldHello) =>
         ResultTexts = <<TextOf(1), TextOf(3), TextOf(1)>>

C2_Witness ==
  /\ argv.dedupe = "consecutive"
  /\ Finished
  /\ IsHelloHelloWorldHello
  /\ vtt.log = <<"retained", "duplicate", "retained", "retained">>
  /\ vtt.duplicateCount = 1

\* C3: in mode unique an entry is dropped as a duplicate exactly when an entry
\* of the same normalized text was retained before it in the file; the
\* retained texts are pairwise distinct, each the first occurrence of its text
\* among the entries that pass the filters; and x, x, y, x is retained as x, y.
C3_UniqueDedupe ==
  (pc = "parseVTT" /\ argv.dedupe = "unique") =>
    /\ \A k \in 1 .. Processed :
         (vtt.log[k] = "duplicate") <=>
           \E j \in RetainedBefore(k) : TextOf(j) = TextOf(k)
    /\ ResultTexts = RetainedTexts(Processed)
    /\ \A p, q \in 1 .. Len(vtt.result) : p # q => ResultTexts[p] # ResultTexts[q]
    /\ \A k \in 1 .. Processed :
         vtt.log[k] = "retained" =>
           \A j \in 1 .. (k - 1) :
              vtt.log[j] # "skipped" => TextOf(j) # TextOf(k)
    /\ (Finished /\ IsHelloHelloWorldHello) =>
         ResultTexts = <<TextOf(1), TextOf(3)>>

C3_Witness ==
  /\ argv.dedupe = "unique"
  /\ Finished
  /\ IsHelloHelloWorldHello
  /\ vtt.log = <<"retained", "duplicate", "retained", "duplicate">>
  /\ ResultTexts = <<TextOf(1), TextOf(3)>>

\* the lists that hold the filters of fs in another order
Reorderings(fs) ==
  {[k \in 1 .. Len(fs) |-> fs[p[k]]] : p \in Permutations(1 .. Len(fs))}

\* C4: an entry is dropped by the skip filter if and only if some configured
\* filter matches its normalized text (a literal as a substring, a pattern as
\* a match); the order of the filters does not change the outcome; no retained
\* text matches a filter.
C4_SkipFilter ==
  pc = "parseVTT" =>
    /\ \A k \in 1 .. Processed :
         /\ (vtt.log[k] = "skipped") <=> Filtered(TextOf(k))
         /\ \A fs \in Reorderings(argv.skipFilter) :
              shouldSkipContent(TextOf(k), fs)
                = shouldSkipContent(TextOf(k), argv.skipFilter)
    /\ vtt.skippedCount = Cardinality({k \in 1 .. Processed : Filtered(TextOf(k))})
    /\ \A k \in 1 .. Len(vtt.result) : ~Filtered(ResultTexts[k])

\* two filters, the first of which lets a text pass that the second drops,
\* and an entry that is retained
C4_Witness ==
  /\ pc = "parseVTT"
  /\ Len(argv.skipFilter) = 2
  /\ \E k \in 1 .. Processed :
       /\ vtt.log[k] = "skipped"
       /\ ~Matches(argv.skipFilter[1], TextOf(k))
       /\ Matches(argv.skipFilter[2], TextOf(k))
       /\ argv.skipFilter[2].type = "RegExp"
  /\ \E k \in 1 .. Processed :
       /\ vtt.log[k] = "skipped"
       /\ Matches(argv.skipFilter[1], TextOf(k))
  /\ Finished

\* C5: an entry whose body normalizes to the empty string is never retained,
\* whatever the dedupe mode and the filters: no element of the result has an
\* empty text.
C5_EmptyBodyExcluded ==
  pc = "parseVTT" =>
    /\ \A k \in 1 .. Processed : TextOf(k) = <<>> => vtt.log[k] # "retained"
    /\ \A k \in 1 .. Len(vtt.result) : vtt.result[k][2] # <<>>
    /\ Len(vtt.result) = Cardinality({k \in 1 .. Processed : vtt.log[k] = "retained"})

\* a marker with no body and a body of white space, both dropped as empty,
\* between two retained entries
C5_Witness ==
  /\ Finished
  /\ \E k \in 1 .. Processed :
       disk[1].blocks[k].body = <<>> /\ vtt.log[k] = "empty"
  /\ \E k \in 1 .. Processed :
       disk[1].blocks[k].body # <<>> /\ TextOf(k) = <<>> /\ vtt.log[k] = "empty"
  /\ Len(vtt.result) = 2

\* one loop iteration, seen from outside: k is the entry it handles
FrameStep ==
  LET k == Processed + 1
  IN  (pc = "parseVTT" /\ vtt' # vtt) =>
        /\ vtt'.log[k] # "retained" =>
             /\ vtt'.lastContent = vtt.lastContent
             /\ vtt'.uniqueContents = vtt.uniqueContents
             /\ vtt'.result = vtt.result
        /\ vtt'.log[k] = "retained" =>
             /\ vtt'.lastContent = Some(TextOf(k))
             /\ vtt'.uniqueContents = vtt.uniqueContents \cup {TextOf(k)}
             /\ Len(vtt'.result) = Len(vtt.result) + 1
        /\ ( /\ argv.dedupe = "consecutive"
             /\ RetainedBefore(k) # {}
             /\ TextOf(LastRetainedBefore(k)) = TextOf(k) ) =>
             vtt'.log[k] = "duplicate"

\* C10: an entry that is dropped (filtered, duplicate or empty) leaves
\* lastContent and uniqueContents as they were, and a retained entry sets
\* them; so in mode consecutive an entry equal to the last retained one is
\* dropped as a duplicate even when dropped entries lie between the two.
C10_DroppedEntryFrame == [][FrameStep]_vars

\* retained, then a filtered and an empty entry, then the same text again,
\* dropped as a duplicate
C10_Witness ==
  /\ pc = "parseVTT"
  /\ argv.dedupe = "consecutive"
  /\ Processed = 4
  /\ vtt.log = <<"retained", "skipped", "empty", "duplicate">>
  /\ TextOf(1) = TextOf(4)
  /\ vtt.lastContent = Some(TextOf(1))

----------------------------------------------------------------------------
(* Claims about the merge, under SpecMerge. *)

DigitValue(c) == CHOOSE n \in 0 .. 9 : Digits[n + 1] = c

Number(ds) ==
  IF Len(ds) = 2 THEN 10 * DigitValue(ds[1]) + DigitValue(ds[2])
  ELSE 100 * DigitValue(ds[1]) + 10 * DigitValue(ds[2]) + DigitValue(ds[3])

\* the four fields of a text HH:MM:SS.mmm, as numbers
Fields(tc) ==
  <<Number(SubSeq(tc, 1, 2)), Number(SubSeq(tc, 4, 5)),
    Number(SubSeq(tc, 7, 8)), Number(SubSeq(tc, 10, 12))>>

\* a timestamp converted to total milliseconds
ToMs(tc) ==
  LET f == Fields(tc) IN ((f[1] * 60 + f[2]) * 60 + f[3]) * 1000 + f[4]

\* a time of day: minutes and seconds below 60
IsClockTime(tc) == Fields(tc)[2] < 60 /\ Fields(tc)[3] < 60

StartOf(line) == SubSeq(line.timestamp, 1, 12)
EndOf(line) == SubSeq(line.timestamp, 18, 29)

\* a <= b for two lists of numbers of one length, first difference deciding
RECURSIVE LexLeq(_, _)
LexLeq(a, b) ==
  IF a = <<>> THEN TRUE
  ELSE IF Head(a) # Head(b) THEN Head(a) < Head(b)
  ELSE LexLeq(Tail(a), Tail(b))

FieldKey(line) == Fields(StartOf(line)) \o Fields(EndOf(line))
MsKey(line) == <<ToMs(StartOf(line)), ToMs(EndOf(line))>>

\* the captions of all the files, in speaker list order and then file order
RECURSIVE InputFrom(_)
InputFrom(k) ==
  IF k > Len(disk) THEN <<>>
  ELSE [j \in 1 .. Len(disk[k].blocks) |->
          [timestamp |-> TimestampOf(disk[k].blocks[j].startTime,
                                     disk[k].blocks[j].endTime),
           character |-> k]]
       \o InputFrom(k + 1)

Merged == pc = "done" /\ Len(written) = 1

\* C1: the merged sequence is non-decreasing in (start, end), field by field
\* and, for times of day, in milliseconds; it holds every input caption once;
\* and two captions of identical (start, end) keep their input order (speaker
\* list order, then order within the file). The written lines are that
\* sequence.
C1_MergedOrder ==
  Merged =>
    LET out == combinedLines
        inp == InputFrom(1)
    IN  /\ Len(out) = Len(inp)
        /\ {out[p].seq : p \in 1 .. Len(out)} = 1 .. Len(inp)
        /\ \A p \in 1 .. Len(out) :
             /\ out[p].timestamp = inp[out[p].seq].timestamp
             /\ out[p].character = inp[out[p].seq].character
        /\ \A p, q \in 1 .. Len(out) :
             p < q =>
               /\ LexLeq(FieldKey(out[p]), FieldKey(out[q]))
               /\ out[p].timestamp = out[q].timestamp => out[p].seq < out[q].seq
        /\ (\A p \in 1 .. Len(out) :
              IsClockTime(StartOf(out[p])) /\ IsClockTime(EndOf(out[p]))) =>
             \A p, q \in 1 .. Len(out) :
                p < q => LexLeq(MsKey(out[p]), MsKey(out[q]))
        /\ written[1].lines = RenderLines(out, argv.timestamped)

\* two speakers; the second speaker's caption comes first in time, and two
\* captions of one (start, end), one from each speaker, stay in speaker order
C1_Witness ==
  /\ Merged
  /\ Len(disk) = 2
  /\ Len(combinedLines) = 3
  /\ combinedLines[1].seq = 3
  /\ combinedLines[2].timestamp = combinedLines[3].timestamp
  /\ combinedLines[2].character = 1 /\ combinedLines[3].character = 2
  /\ \A p \in 1 .. 3 : IsClockTime(StartOf(combinedLines[p]))
                       /\ IsClockTime(EndOf(combinedLines[p]))

\* C9: for any digit values, the utterance of the smaller start in total
\* milliseconds is placed first, and on equal starts the one of the smaller
\* end in total milliseconds.
C9_NumericOrder ==
  Merged =>
    \A p, q \in 1 .. Len(combinedLines) :
       LET a == MsKey(combinedLines[p])
           b == MsKey(combinedLines[q])
       IN  (a[1] < b[1] \/ (a[1] = b[1] /\ a[2] < b[2])) => p < q

----------------------------------------------------------------------------
(* Claims about a whole run, under Spec. *)

\* the per-speaker arrays do not all have one length
LengthsDiffer == Cardinality({argv[k] : k \in PerSpeaker}) > 1

\* C6: when the per-speaker arrays differ in length the run ends with exit
\* code 1 in its first step, no input file is ever read and nothing is ever
\* written; and the run ends that way only then.
C6_LengthValidation ==
  /\ LengthsDiffer =>
       /\ pc \in {"validate", "exited"}
       /\ pc = "exited" => exitCode = 1
       /\ readLog = <<>>
       /\ written = <<>>
       /\ idx = 0
  /\ (pc = "exited" \/ exitCode = 1) => LengthsDiffer

\* more transcripts than player names: exit code 1, nothing read or written
C6_Witness ==
  /\ pc = "exited"
  /\ exitCode = 1
  /\ argv.playerName < argv.transcript
  /\ argv.role = argv.playerName
  /\ \E k \in DOMAIN disk : disk[k].readable
  /\ readLog = <<>>
  /\ written = <<>>

AllReadable == \A k \in DOMAIN disk : disk[k].readable

RECURSIVE ConcatLines(_)
ConcatLines(artifacts) ==
  IF artifacts = <<>> THEN <<>>
  ELSE Head(artifacts).lines \o ConcatLines(Tail(artifacts))

\* C7: a run that ends without an error has written exactly as many
\* artifacts as --chunks says, and their lines, in chunk order, are the
\* merged lines.
C7_ChunksWritten ==
  (pc = "done" /\ ~LengthsDiffer /\ AllReadable) =>
    /\ Len(written) = argv.chunks
    /\ ConcatLines(written) = RenderLines(combinedLines, argv.timestamped)

\* C8: nothing is written in a run in which some file cannot be read, and no
\* file is read after the one that failed; whatever is written is written
\* once, at the end, after every file has been read and parsed.
C8_NoWriteAfterReadError ==
  LET n == argv.playerName
  IN  /\ (~LengthsDiffer /\ ~AllReadable) => written = <<>>
      /\ pc = "catch" => written = <<>> /\ ~disk[readLog[Len(readLog)]].readable
      /\ \A p \in 1 .. (Len(readLog) - 1) : disk[readLog[p]].readable
      /\ written # <<>> =>
           /\ Len(written) = 1
           /\ pc = "done"
           /\ idx = n
           /\ readLog = [k \in 1 .. n |-> k]
           /\ AllReadable
           /\ written[1].summary = [k \in 1 .. n |-> k]

\* the first file was read and parsed, the second is missing: the run has
\* ended, lines were collected, nothing was written
C8_Witness ==
  /\ pc = "done"
  /\ Len(disk) = 2
  /\ disk[1].readable /\ ~disk[2].readable
  /\ readLog = <<1, 2>>
  /\ combinedLines # <<>>
  /\ written = <<>>

----------------------------------------------------------------------------
(* The line-oriented script (src/combine.js). *)

TimeChars == Range(Digits) \cup {":", "."}

\* the index of the last character of the longest run of [0-9:.] that starts
\* at p (p - 1 when there is none)
RECURSIVE RunEnd(_, _)
RunEnd(line, p) ==
  IF p <= Len(line) /\ line[p] \in TimeChars THEN RunEnd(line, p + 1) ELSE p - 1

\* the match of /\[([0-9:.]+)\s-->\s([0-9:.]+)\]/ that starts at p, if any:
\* the runs are the longest ones, because \s and ] are outside [0-9:.]
MatchAt(line, p) ==
  LET e1 == RunEnd(line, p + 1)
      e2 == RunEnd(line, e1 + 6)
  IN  IF /\ p <= Len(line) /\ line[p] = "["
         /\ e1 >= p + 1
         /\ e1 + 5 <= Len(line)
         /\ IsSpace(line[e1 + 1])
         /\ SubSeq(line, e1 + 2, e1 + 4) = <<"-", "-", ">">>
         /\ IsSpace(line[e1 + 5])
         /\ e2 >= e1 + 6
         /\ e2 + 1 <= Len(line) /\ line[e2 + 1] = "]"
      THEN Some([startTime |-> SubSeq(line, p + 1, e1),
                 endTime |-> SubSeq(line, e1 + 6, e2)])
      ELSE Null

\* line.match(timeRegex): the leftmost match, or null
parseTime(line) ==
  LET at == {p \in 1 .. Len(line) : MatchAt(line, p) # Null}
  IN  IF at = {} THEN Null
      ELSE MatchAt(line, CHOOSE p \in at : \A q \in at : p <= q)

\* the UTF-16 code units of the characters of a timestamp, in order
CodeUnitOrder ==
  <<".", "0", "1", "2", "3", "4", "5", "6", "7", "8", "9", ":">>

CodeUnitRank(c) == CHOOSE k \in 1 .. Len(CodeUnitOrder) : CodeUnitOrder[k] = c

\* a < b on two strings: by code units, a proper prefix first
RECURSIVE StringLess(_, _)
StringLess(a, b) ==
  IF b = <<>> THEN FALSE
  ELSE IF a = <<>> THEN TRUE
  ELSE IF Head(a) # Head(b) THEN CodeUnitRank(Head(a)) < CodeUnitRank(Head(b))
  ELSE StringLess(Tail(a), Tail(b))

\* the comparator of sortTranscripts: 0 as soon as either line has no time
CompareLines(a, b) ==
  LET timeA == parseTime(a.line)
      timeB == parseTime(b.line)
  IN  IF timeA = Null \/ timeB = Null THEN 0
      ELSE IF StringLess(timeA[1].startTime, timeB[1].startTime) THEN -1
      ELSE IF StringLess(timeB[1].startTime, timeA[1].startTime) THEN 1
      ELSE IF StringLess(timeA[1].endTime, timeB[1].endTime) THEN -1
      ELSE IF StringLess(timeB[1].endTime, timeA[1].endTime) THEN 1
      ELSE 0

\* With a comparator that is not a consistent order the result of
\* Array.prototype.sort is implementation-defined. The two sorts Node has
\* shipped for an array this short: the insertion sort of the older engines,
\* and the newer one's search for an initial run followed by binary insertion.
SortEngines == {"insertion", "binaryInsertion"}

\* insertion sort: x moves left past the elements that compare greater
LineInsert(sorted, x) ==
  LET after == {k \in 1 .. Len(sorted) : CompareLines(sorted[k], x) <= 0}
      at    == IF after = {} THEN 0
               ELSE CHOOSE k \in after : \A m \in after : m <= k
  IN  SubSeq(sorted, 1, at) \o <<x>> \o SubSeq(sorted, at + 1, Len(sorted))

RECURSIVE InsertionSort(_)
InsertionSort(lines) ==
  IF lines = <<>> THEN <<>>
  ELSE LineInsert(InsertionSort(SubSeq(lines, 1, Len(lines) - 1)), lines[Len(lines)])

\* the length of the run the array starts with: it goes on while each element
\* is not less than the one before it (or, descending, is less)
RECURSIVE RunLength(_, _, _)
RunLength(lines, descending, k) ==
  IF k > Len(lines) THEN k - 1
  ELSE LET order == CompareLines(lines[k], lines[k - 1])
       IN  IF (descending /\ order >= 0) \/ (~descending /\ order < 0)
           THEN k - 1
           ELSE RunLength(lines, descending, k + 1)

Reverse(s) == [k \in 1 .. Len(s) |-> s[Len(s) + 1 - k]]

\* how many elements of the sorted prefix stay to the left of pivot
RECURSIVE BinarySearch(_, _, _, _)
BinarySearch(lines, pivot, left, right) ==
  IF left >= right THEN left
  ELSE LET mid == left + ((right - left) \div 2)
       IN  IF CompareLines(pivot, lines[mid + 1]) < 0
           THEN BinarySearch(lines, pivot, left, mid)
           ELSE BinarySearch(lines, pivot, mid + 1, right)

\* binary insertion of the elements from start on into the prefix before them
RECURSIVE BinaryInsertionSort(_, _)
BinaryInsertionSort(lines, start) ==
  IF start > Len(lines) THEN lines
  ELSE LET pivot == lines[start]
           left  == BinarySearch(lines, pivot, 0, start - 1)
       IN  BinaryInsertionSort(
             SubSeq(lines, 1, left) \o <<pivot>> \o SubSeq(lines, left + 1, start - 1)
               \o SubSeq(lines, start + 1, Len(lines)),
             start + 1)

RunThenBinaryInsertion(lines) ==
  IF Len(lines) < 2 THEN lines
  ELSE LET descending == CompareLines(lines[2], lines[1]) < 0
           run        == RunLength(lines, descending, 3)
           made       == IF descending
                         THEN Reverse(SubSeq(lines, 1, run))
                                \o SubSeq(lines, run + 1, Len(lines))
                         ELSE lines
       IN  BinaryInsertionSort(made, run + 1)

\* lines.sort(comparator), on the given engine
sortTranscripts(lines, engine) ==
  IF engine = "insertion" THEN InsertionSort(lines)
  ELSE RunThenBinaryInsertion(lines)

\* text.split('\n')
RECURSIVE SplitLines(_)
SplitLines(text) ==
  IF \E k \in 1 .. Len(text) : text[k] = "\n"
  THEN LET k == CHOOSE j \in 1 .. Len(text) :
                  text[j] = "\n" /\ \A m \in 1 .. (j - 1) : text[m] # "\n"
       IN  <<SubSeq(text, 1, k - 1)>> \o SplitLines(SubSeq(text, k + 1, Len(text)))
  ELSE <<text>>

NonEmptyLine(line) == Trim(line) # <<>>

\* the lines one file adds: those of fileContent.trim().split('\n') that are
\* not empty after trim()
LinesPushed(text, character, from) ==
  LET kept == SelectSeq(SplitLines(Trim(text)), NonEmptyLine)
  IN  [k \in 1 .. Len(kept) |->
         [name |-> character, line |-> kept[k], seq |-> from + k]]

\* one pass of transcripts.forEach in combine.js: summary, read, split, push
LineForEachTranscript ==
  /\ pc = "lineCombine"
  /\ idx < argv.playerName
  /\ ~ReadThrows(idx + 1)
  /\ combinedLines' =
       combinedLines \o LinesPushed(disk[idx + 1].text, idx + 1, Len(combinedLines))
  /\ summary' = Append(summary, idx + 1)
  /\ readLog' = Append(readLog, idx + 1)
  /\ idx' = idx + 1
  /\ UNCHANGED <<argv, disk, pc, written, exitCode, vtt>>

\* after the forEach: sortTranscripts, build the text, write it, and end
LineSortAndWrite ==
  /\ pc = "lineCombine"
  /\ idx = argv.playerName
  /\ \E engine \in SortEngines :
       combinedLines' = sortTranscripts(combinedLines, engine)
  /\ written' = Append(written,
                       [summary |-> summary,
                        lines |-> [k \in 1 .. Len(combinedLines') |->
                                     [name |-> combinedLines'[k].name,
                                      line |-> combinedLines'[k].line]]])
  /\ pc' = "lineDone"
  /\ exitCode' = 0
  /\ UNCHANGED <<argv, disk, idx, summary, readLog, vtt>>

\* the text [start --> end] rest
TimedLine(startTime, endTime, rest) ==
  <<"[">> \o TimestampOf(startTime, endTime) \o <<"]", " ">> \o rest

\* the lines of the files: three with a prefix (two of them sharing a start),
\* one without, one of white space only
LineTexts ==
  { TimedLine(Clock(0, 0, 1, 0), Clock(0, 0, 2, 0), <<"a">>),
    TimedLine(Clock(0, 0, 1, 0), Clock(0, 0, 5, 0), <<"b">>),
    TimedLine(Clock(0, 0, 2, 0), Clock(0, 0, 3, 0), <<"c">>),
    <<"n", "o", "t", "e">>,
    <<" ", " ">> }

\* lines joined by newlines
RECURSIVE JoinLines(_)
JoinLines(lines) ==
  IF lines = <<>> THEN <<>>
  ELSE IF Len(lines) = 1 THEN lines[1]
  ELSE lines[1] \o <<"\n">> \o JoinLines(Tail(lines))

TextFile(lines) == [readable |-> TRUE, text |-> JoinLines(lines)]

CutTextFiles(flat, n, c) ==
  [k \in 1 .. n |->
     TextFile(SubSeq(flat,
                     (IF k = 1 THEN 0 ELSE c[k - 1]) + 1,
                     IF k = n THEN Len(flat) ELSE c[k]))]

\* combineTranscripts of combine.js on readable files
InitLines ==
  /\ \E n \in 1 .. MaxSpeakers :
       /\ argv = Options(Lengths(n), "false", <<>>, TRUE, 1)
       /\ \E flat \in SeqsUpTo(LineTexts, MaxLines) :
            \E c \in Cuts(Len(flat), n) : disk = CutTextFiles(flat, n, c)
  /\ pc = "lineCombine"
  /\ Quiet
  /\ vtt = VttStart(<<>>)

NextLines == LineForEachTranscript \/ LineSortAndWrite

SpecLines == InitLines /\ [][NextLines]_vars

----------------------------------------------------------------------------
(* The claim about the line-oriented script, under SpecLines. *)

HasTime(l) == parseTime(l.line) # Null

LineMsKey(l) ==
  LET t == parseTime(l.line)[1] IN <<ToMs(t.startTime), ToMs(t.endTime)>>

\* the lines in the order they were pushed
PushOrder(lines) ==
  [s \in 1 .. Len(lines) |->
     lines[CHOOSE k \in 1 .. Len(lines) : lines[k].seq = s]]

\* C11: in the output of the line-oriented script the lines that carry a
\* [start --> end] prefix are in non-decreasing (start, end) order, the order
\* the sort gives them when the lines without a prefix are absent.
C11_UntimedNoInfluence ==
  pc = "lineDone" =>
    LET timed == SelectSeq(combinedLines, HasTime)
        alone == SelectSeq(PushOrder(combinedLines), HasTime)
    IN  /\ \A p, q \in 1 .. Len(timed) :
             p < q => LexLeq(LineMsKey(timed[p]), LineMsKey(timed[q]))
        /\ \A engine \in SortEngines : timed = sortTranscripts(alone, engine)

====
